---------------------------- MODULE Spec2Model ----------------------------
(***************************************************************************)
(* A model of the DeepSORT tracker of src/application/tools/deepsort.cpp:  *)
(* the Hungarian solver (HungarianAlgorithm), the track object            *)
(* (TrackObjectImpl) and the coordinator (TrackerImpl).                    *)
(*                                                                         *)
(* The Kalman filter's floating-point linear algebra is not computed.  Of *)
(* a track's mean the model keeps whether it is exactly the measurement   *)
(* of one box b with zero velocity: initiate(b) makes it so, predict      *)
(* keeps it (the velocities are 0) and update with b itself keeps it (the *)
(* innovation is 0).  For such a track and a detection b the squared      *)
(* Mahalanobis distance is 0, or NaN, and never exceeds the gate.  For    *)
(* every other pair the verdict of the chi-square gate in                 *)
(* TrackerImpl::match is an input of the update action, so every          *)
(* behaviour of the code is a behaviour of the model.                     *)
(* Costs are the exact integers the code computes on the boxes used here  *)
(* (box centres lie on a line of direction (3, 4), so hypot is exact).    *)
(* C++ vectors indexed from 0 are sequences indexed from 1, except in the *)
(* solver, whose flat column-major arrays keep their 0-based indices.     *)
(***************************************************************************)
EXTENDS Integers, Sequences, FiniteSets, TLC

VARIABLES
    objects_,   \* TrackerImpl::objects_, the track table
    id_next_,   \* TrackerImpl::id_next_
    call,       \* history: what the last update() call did
    frame,      \* history: number of update() calls so far
    hung,       \* the solver's working state, one run of Solve
    failed,     \* history: the tracker before an update() that threw
    probe       \* the last call of a function that only returns a value

vars == <<objects_, id_next_, call, frame, hung, failed, probe>>

-----------------------------------------------------------------------------
(* Bounds of the model *)

MaxFrames == 3
MaxDets == 2
MaxTracks == 2
LongAge == 82
LongIds == 1
MaxDim == 3
MaxCost == 2
MaxThrowAt == 2
MaxEdge == 6
MaxHits == 82
WarmFrames == 3
CascadeFrames == 5
CascadeTracks == 3
MaxMiss == 2
NegCost == 1
LifeIds == 2
NegDim == 3

-----------------------------------------------------------------------------
(* Program constants *)

level_max == 30
TraceMax == 80
ConfirmHits == 3
AcceptBelow == 200
GatedCost == 100000
DBL_MAX == 1000000000

Min(S) == CHOOSE x \in S : \A y \in S : x <= y

-----------------------------------------------------------------------------
(* HungarianAlgorithm *)

\* distMatrix[row + nOfRows*col]
Idx(h, row, col) == row + h.nOfRows * col

Rows(h) == 0 .. h.nOfRows - 1
Cols(h) == 0 .. h.nOfColumns - 1

\* variant: a zero test that also takes 1 for zero
IsZero_wide(v) == v < 2

\* lines 151, 186, 303: fabs(..) < DBL_EPSILON on the integers of the model
IsZero(v) == v = 0

\* lines 125-146: subtract the smallest element of each row from the row
ReduceRows(h) ==
    [h EXCEPT !.distMatrix =
        [n \in DOMAIN h.distMatrix |->
            LET row == n % h.nOfRows
                minValue == Min({h.distMatrix[Idx(h, row, c)] : c \in Cols(h)})
            IN  h.distMatrix[n] - minValue]]

\* lines 163-181: subtract the smallest element of each column from the column
ReduceColumns(h) ==
    [h EXCEPT !.distMatrix =
        [n \in DOMAIN h.distMatrix |->
            LET col == n \div h.nOfRows
                minValue == Min({h.distMatrix[Idx(h, r, col)] : r \in Rows(h)})
            IN  h.distMatrix[n] - minValue]]

\* lines 149-157: steps 1 and 2a when nOfRows <= nOfColumns
RECURSIVE StarByRows(_, _)
StarByRows(h, row) ==
    IF row >= h.nOfRows THEN h
    ELSE LET cands == {c \in Cols(h) : IsZero(h.distMatrix[Idx(h, row, c)])
                                        /\ ~h.coveredColumns[c]}
         IN  IF cands = {} THEN StarByRows(h, row + 1)
             ELSE LET col == Min(cands)
                  IN  StarByRows([h EXCEPT !.starMatrix[Idx(h, row, col)] = TRUE,
                                           !.coveredColumns[col] = TRUE], row + 1)

\* lines 184-195: steps 1 and 2a when nOfRows > nOfColumns
RECURSIVE StarByColumns(_, _)
StarByColumns(h, col) ==
    IF col >= h.nOfColumns
    THEN [h EXCEPT !.coveredRows = [r \in Rows(h) |-> FALSE]]
    ELSE LET cands == {r \in Rows(h) : IsZero(h.distMatrix[Idx(h, r, col)])
                                        /\ ~h.coveredRows[r]}
         IN  IF cands = {} THEN StarByColumns(h, col + 1)
             ELSE LET row == Min(cands)
                  IN  StarByColumns([h EXCEPT !.starMatrix[Idx(h, row, col)] = TRUE,
                                              !.coveredColumns[col] = TRUE,
                                              !.coveredRows[row] = TRUE], col + 1)

\* lines 94-118: initialization, working copy, allocation; cerr counts the
\* lines written to std::cerr (line 109), the copy at line 110 is unconditional
AllocH(distMatrixIn, nOfRows, nOfColumns) ==
    LET nOfElements == nOfRows * nOfColumns
        E == 0 .. nOfElements - 1
    IN  [nOfRows |-> nOfRows, nOfColumns |-> nOfColumns,
         minDim |-> IF nOfRows <= nOfColumns THEN nOfRows ELSE nOfColumns,
         distMatrixIn |-> distMatrixIn,
         distMatrix |-> [n \in E |-> distMatrixIn[n]],
         coveredColumns |-> [c \in 0 .. nOfColumns - 1 |-> FALSE],
         coveredRows |-> [r \in 0 .. nOfRows - 1 |-> FALSE],
         starMatrix |-> [n \in E |-> FALSE],
         primeMatrix |-> [n \in E |-> FALSE],
         newStarMatrix |-> [n \in E |-> FALSE],
         assignment |-> [r \in 0 .. nOfRows - 1 |-> -1],
         cerr |-> Cardinality({n \in E : distMatrixIn[n] < 0}),
         cost |-> 0, row |-> 0, col |-> 0, oob |-> FALSE, pc |-> "step2b"]

\* lines 87-200: assignmentoptimal up to the call of step2b
Preliminary(distMatrixIn, nOfRows, nOfColumns) ==
    LET h == AllocH(distMatrixIn, nOfRows, nOfColumns)
    IN  IF nOfRows <= nOfColumns
        THEN StarByRows(ReduceRows(h), 0)
        ELSE StarByColumns(ReduceColumns(h), 0)

\* lines 251-265
step2a(h) ==
    [h EXCEPT !.coveredColumns =
                [c \in Cols(h) |->
                    h.coveredColumns[c]
                    \/ \E r \in Rows(h) : h.starMatrix[Idx(h, r, c)]],
              !.pc = "step2b"]

\* lines 216-231
buildassignmentvector(h) ==
    [row \in Rows(h) |->
        LET stars == {c \in Cols(h) : h.starMatrix[Idx(h, row, c)]}
        IN  IF stars = {} THEN h.assignment[row] ELSE Min(stars)]

\* lines 233-243, applied to the input matrix (line 203)
RECURSIVE CostFrom(_, _)
CostFrom(h, row) ==
    IF row >= h.nOfRows THEN 0
    ELSE (IF h.assignment[row] >= 0
          THEN h.distMatrixIn[row + h.nOfRows * h.assignment[row]]
          ELSE 0) + CostFrom(h, row + 1)

\* variant: the cost summed over the reduced working copy distMatrix
RECURSIVE CostFromReduced(_, _)
CostFromReduced(h, row) ==
    IF row >= h.nOfRows THEN 0
    ELSE (IF h.assignment[row] >= 0
          THEN h.distMatrix[row + h.nOfRows * h.assignment[row]]
          ELSE 0) + CostFromReduced(h, row + 1)

computeassignmentcost_reduced(h) ==
    [h EXCEPT !.cost = h.cost + CostFromReduced(h, 0)]

computeassignmentcost(h) == [h EXCEPT !.cost = h.cost + CostFrom(h, 0)]

\* variant: the algorithm ends one covered column short
step2b_short(h) ==
    LET nOfCoveredColumns == Cardinality({c \in Cols(h) : h.coveredColumns[c]})
    IN  IF nOfCoveredColumns >= h.minDim - 1
        THEN computeassignmentcost(
                [h EXCEPT !.assignment = buildassignmentvector(h), !.pc = "done"])
        ELSE [h EXCEPT !.pc = "step3"]

\* lines 268-289; the return to assignmentoptimal (lines 202-203) is part of
\* the branch that ends the algorithm
step2b(h) ==
    LET nOfCoveredColumns == Cardinality({c \in Cols(h) : h.coveredColumns[c]})
    IN  IF nOfCoveredColumns = h.minDim
        THEN computeassignmentcost(
                [h EXCEPT !.assignment = buildassignmentvector(h), !.pc = "done"])
        ELSE [h EXCEPT !.pc = "step3"]

\* lines 300-326: one pass of the for (col) loop from column col on;
\* zerosFound is carried in the record
RECURSIVE step3Pass(_, _)
step3Pass(h, col) ==
    IF col >= h.nOfColumns THEN h
    ELSE IF h.coveredColumns[col] THEN step3Pass(h, col + 1)
    ELSE LET cands == {r \in Rows(h) : ~h.coveredRows[r]
                                        /\ IsZero(h.distMatrix[Idx(h, r, col)])}
         IN  IF cands = {} THEN step3Pass(h, col + 1)
             ELSE LET row == Min(cands)
                      stars == {c \in Cols(h) : h.starMatrix[Idx(h, row, c)]}
                      hp == [h EXCEPT !.primeMatrix[Idx(h, row, col)] = TRUE]
                  IN  IF stars = {}
                      THEN [hp EXCEPT !.pc = "step4", !.row = row, !.col = col]
                      ELSE step3Pass([hp EXCEPT !.coveredRows[row] = TRUE,
                                                !.coveredColumns[Min(stars)] = FALSE,
                                                !.zerosFound = TRUE], col + 1)

\* lines 296-330: the while (zerosFound) loop; p is the state a pass leaves
RECURSIVE step3Loop(_)
step3While(p) ==
    IF p.pc = "step4" THEN p
    ELSE IF p.zerosFound THEN step3Loop(p)
    ELSE [p EXCEPT !.pc = "step5"]

step3Loop(h) == step3While(step3Pass([h EXCEPT !.zerosFound = FALSE], 0))

step3(h) ==
    [k \in DOMAIN h |-> step3Loop(h @@ [zerosFound |-> TRUE])[k]]

\* lines 351-370: the alternating path, from the starred zero (starRow,
\* starCol); starRow = nOfRows when the column holds no starred zero
StarRowIn(h, starCol) ==
    LET s == {r \in Rows(h) : h.starMatrix[Idx(h, r, starCol)]}
    IN  IF s = {} THEN h.nOfRows ELSE Min(s)

RECURSIVE step4Path(_, _, _)
step4Path(h, starRow, starCol) ==
    IF starRow >= h.nOfRows THEN h
    ELSE LET primes == {c \in Cols(h) : h.primeMatrix[Idx(h, starRow, c)]}
         IN  IF primes = {}
             THEN \* primeCol = nOfColumns: the write and the next read leave
                  \* the column range
                  [h EXCEPT !.oob = TRUE]
             ELSE LET primeCol == Min(primes)
                      u == [h EXCEPT
                              !.newStarMatrix[Idx(h, starRow, starCol)] = FALSE]
                      n == [u EXCEPT
                              !.newStarMatrix[Idx(h, starRow, primeCol)] = TRUE]
                  IN  step4Path(n, StarRowIn(h, primeCol), primeCol)

\* lines 372-383: p is the state the path leaves
step4End(p) ==
    [p EXCEPT !.primeMatrix = [n \in DOMAIN p.primeMatrix |-> FALSE],
              !.starMatrix = p.newStarMatrix,
              !.coveredRows = [r \in Rows(p) |-> FALSE],
              !.pc = "step2a"]

\* lines 333-384
step4(h) ==
    step4End(step4Path(
        [h EXCEPT !.newStarMatrix =
            [h.starMatrix EXCEPT ![Idx(h, h.row, h.col)] = TRUE]],
        StarRowIn(h, h.col), h.col))

\* variant: step5 without the change of the matrix
step5_no_change(h) == [h EXCEPT !.pc = "step3"]

\* lines 386-417
step5(h) ==
    LET unc == {h.distMatrix[Idx(h, r, c)] :
                   r \in {x \in Rows(h) : ~h.coveredRows[x]},
                   c \in {y \in Cols(h) : ~h.coveredColumns[y]}}
        hh == Min(unc \cup {DBL_MAX})
    IN  [h EXCEPT !.distMatrix =
            [n \in DOMAIN h.distMatrix |->
                LET row == n % h.nOfRows
                    col == n \div h.nOfRows
                IN  h.distMatrix[n]
                    + (IF h.coveredRows[row] THEN hh ELSE 0)
                    - (IF ~h.coveredColumns[col] THEN hh ELSE 0)],
                  !.pc = "step3"]

\* one call of the step2a/step2b/step3/step4/step5 chain
StepH(h) ==
    CASE h.pc = "step2a" -> step2a(h)
      [] h.pc = "step2b" -> step2b(h)
      [] h.pc = "step3" -> step3(h)
      [] h.pc = "step4" -> step4(h)
      [] h.pc = "step5" -> step5(h)

RECURSIVE RunH(_)
RunH(h) == IF h.pc = "done" THEN h ELSE RunH(StepH(h))

\* lines 87-214
assignmentoptimal(distMatrixIn, nOfRows, nOfColumns) ==
    RunH(Preliminary(distMatrixIn, nOfRows, nOfColumns))

\* lines 72-74: distMatrixIn[i + nRows * j] = DistMatrix[i][j]
Flatten(DistMatrix) ==
    LET nRows == Len(DistMatrix)
        nCols == Len(DistMatrix[1])
    IN  [n \in 0 .. nRows * nCols - 1 |->
            DistMatrix[(n % nRows) + 1][(n \div nRows) + 1]]

\* lines 79-83: h is the state assignmentoptimal leaves
SolveReturn(h) ==
    [Assignment |-> [r \in 1 .. h.nOfRows |-> h.assignment[r - 1]],
     cost |-> h.cost]

\* lines 63-84: DistMatrix is a sequence of rows; the result is the
\* Assignment vector (entries -1 .. nCols-1) and the returned cost
Solve(DistMatrix) ==
    SolveReturn(assignmentoptimal(Flatten(DistMatrix), Len(DistMatrix),
                                  Len(DistMatrix[1])))

-----------------------------------------------------------------------------
(* Box (deepsort.hpp) and the cost of a pair *)

Box(left, top, right, bottom) ==
    [left |-> left, top |-> top, right |-> right, bottom |-> bottom]

\* Box::center
center(box) ==
    [x |-> (box.left + box.right) \div 2, y |-> (box.top + box.bottom) \div 2]

\* Box::width and Box::height
width(box) == box.right - box.left
height(box) == box.bottom - box.top

\* the conversion of a float to int (line 23) on a length given in half
\* pixels: the fraction is dropped, towards zero
float_to_int(halves) ==
    IF halves >= 0 THEN halves \div 2 ELSE -((-halves) \div 2)

\* line 24: the values box.width() / height can take; the division by a
\* height of 0 is undefined, and gives an infinity or a NaN on IEEE floats
Quotients(w, h) ==
    IF h = 0 THEN {"inf", "-inf", "nan"} ELSE {<<w, 2 * h>>}

\* lines 19-25, on a box whose edges are given in half pixels: the height
\* member, which line 24 divides by, and the aspect ratios it can leave
BBoxXYAH(box) ==
    [height |-> float_to_int(height(box)),
     divisor |-> float_to_int(height(box)),
     aspect_ratios |-> Quotients(width(box), float_to_int(height(box)))]

\* the boxes of the model: 10 x 20, centred at (3k + 5, 4k + 10)
BoxAt(k) == Box(3 * k, 4 * k, 3 * k + 10, 4 * k + 20)

Abs(n) == IF n < 0 THEN -n ELSE n

\* hypot, exact on the differences that occur between the model's boxes
hypot(dx, dy) ==
    CHOOSE r \in 0 .. Abs(dx) + Abs(dy) : r * r = dx * dx + dy * dy

\* lines 40-44
distance(box, box2) ==
    hypot(center(box).x - center(box2).x, center(box).y - center(box2).y)

-----------------------------------------------------------------------------
(* KalmanFilter, as far as the gate depends on it: a mean is {b} (it is   *)
(* the measurement of box b, velocities 0) or {} (anything else)          *)

\* lines 534-537
initiate(box) == {box}

\* lines 496-513: mean = motion_mat_ * mean adds the zero velocities
KalmanFilter_predict(mean) == mean

\* lines 515-532: the innovation is 0 when the measurement is the mean's
KalmanFilter_update(box, mean) == mean \cap {box}

\* lines 464-494 and 802: whether ma_distance(...) > chi2inv95_2[3] can hold
MayGate(mean, box) == box \notin mean

-----------------------------------------------------------------------------
(* TrackObjectImpl *)

\* lines 563-574 and the member initialisers of lines 664-667
TrackObjectImpl(box, id_next) ==
    [id_ |-> id_next, state_ |-> "Tentative", age_ |-> 1, hits_ |-> 1,
     time_since_update_ |-> 0, trace_ |-> <<box>>, last_position_ |-> box,
     mean_ |-> initiate(box)]

\* static Box none (line 589): zero-initialised
none == Box(0, 0, 0, 0)

\* line 590: time_since_update >= trace_.size() converts the int to the
\* unsigned size type, so that a negative one is above every size
int_ge_size(time_since_update, size) ==
    time_since_update < 0 \/ time_since_update >= size

\* variant: the trace indexed from its oldest box
location_from_front(t, time_since_update) ==
    [self |-> t,
     ret |-> IF int_ge_size(time_since_update, Len(t.trace_))
                \/ time_since_update < 0
             THEN none
             ELSE t.trace_[time_since_update + 1]]

\* lines 588-595: the box returned and the track the call leaves;
\* trace_[size - 1 - k] from 0 is trace_[size - k] from 1
location(t, time_since_update) ==
    [self |-> t,
     ret |-> IF int_ge_size(time_since_update, Len(t.trace_))
                \/ time_since_update < 0
             THEN none
             ELSE t.trace_[Len(t.trace_) - time_since_update]]

\* variant: predict without ++age_
TrackObject_predict_tsu_only(t) ==
    [t EXCEPT !.mean_ = KalmanFilter_predict(@),
              !.time_since_update_ = @ + 1]

\* lines 615-620
TrackObject_predict(t) ==
    [t EXCEPT !.mean_ = KalmanFilter_predict(@),
              !.age_ = @ + 1, !.time_since_update_ = @ + 1]

\* variant: the miss limit compared with >=
mark_missed_ge(t) ==
    IF t.state_ = "Tentative" \/ t.time_since_update_ >= level_max
    THEN [t EXCEPT !.state_ = "Deleted"]
    ELSE t

\* variant: a Confirmed track that misses a frame is Tentative again
mark_missed_demote(t) ==
    IF t.state_ = "Tentative" \/ t.time_since_update_ > level_max
    THEN [t EXCEPT !.state_ = "Deleted"]
    ELSE [t EXCEPT !.state_ = "Tentative"]

\* variant: only the miss limit deletes
mark_missed_limit_only(t) ==
    IF t.time_since_update_ > level_max
    THEN [t EXCEPT !.state_ = "Deleted"]
    ELSE t

\* lines 622-626
mark_missed(t) ==
    IF t.state_ = "Tentative" \/ t.time_since_update_ > level_max
    THEN [t EXCEPT !.state_ = "Deleted"]
    ELSE t

\* variant: push_back without the pop_front
PushTrace_unbounded(trace, box) == Append(trace, box)

\* variant: a full trace drops the box just pushed
PushTrace_drop_newest(trace, box) ==
    IF Len(trace) >= TraceMax THEN trace ELSE Append(trace, box)

\* lines 630-633
PushTrace(trace, box) ==
    LET pushed == Append(trace, box)
    IN  IF Len(pushed) > TraceMax THEN Tail(pushed) ELSE pushed

\* variant: promotion one hit late
Promote_late(state, hits) ==
    IF state = "Tentative" /\ hits > ConfirmHits THEN "Confirmed" ELSE state

\* lines 640-642
Promote(state, hits) ==
    IF state = "Tentative" /\ hits >= ConfirmHits THEN "Confirmed" ELSE state

\* variant: update without time_since_update_ = 0
TrackObject_update_keep_tsu(t, box) ==
    [t EXCEPT !.trace_ = PushTrace(t.trace_, box),
              !.mean_ = KalmanFilter_update(box, @),
              !.last_position_ = box,
              !.hits_ = t.hits_ + 1,
              !.state_ = Promote(t.state_, t.hits_ + 1)]

\* lines 628-643
TrackObject_update(t, box) ==
    [t EXCEPT !.trace_ = PushTrace(t.trace_, box),
              !.mean_ = KalmanFilter_update(box, @),
              !.last_position_ = box,
              !.hits_ = t.hits_ + 1,
              !.time_since_update_ = 0,
              !.state_ = Promote(t.state_, t.hits_ + 1)]

-----------------------------------------------------------------------------
(* TrackerImpl *)

Range(s) == {s[i] : i \in DOMAIN s}

\* the elements of a std::set<int>, in its iteration order
RECURSIVE Ascending(_)
Ascending(S) ==
    IF S = {} THEN <<>> ELSE <<Min(S)>> \o Ascending(S \ {Min(S)})

\* std::set_symmetric_difference into a cleared vector (lines 742-759)
set_symmetric_difference(A, B) == Ascending((A \ B) \cup (B \ A))

\* lines 697-701
predict(objects) == [i \in DOMAIN objects |-> TrackObject_predict(objects[i])]

\* lines 800-807: gated holds the pairs whose squared Mahalanobis distance
\* exceeds chi2inv95_2[3]
cost_data(objects, boxes, gated, obj_idx, box_idx) ==
    IF <<obj_idx, box_idx>> \in gated
    THEN GatedCost
    ELSE distance(objects[obj_idx].last_position_, boxes[box_idx])

\* variant: the threshold itself accepted
Accept_le(cell) == cell <= AcceptBelow

\* line 825
Accept(cell) == cell < AcceptBelow

\* lines 787-811
CostMatrix(objects, objects_index, boxes_index, boxes, gated) ==
    [i \in DOMAIN objects_index |->
        [j \in DOMAIN boxes_index |->
            cost_data(objects, boxes, gated, objects_index[i], boxes_index[j])]]

\* lines 818-829: the rows the loop pushes, in row order
AcceptedRows(cost_matrix_data, assignment) ==
    SelectSeq([i \in DOMAIN assignment |-> i],
              LAMBDA i : assignment[i] >= 0
                         /\ Accept(cost_matrix_data[i][assignment[i] + 1]))

\* lines 818-829: what match leaves in its two output vectors, with the
\* matrix and the assignment it computed
MatchOutput(objects_index, boxes_index, cost_matrix_data, assignment, rows) ==
    [match_boxes_index |->
        [k \in DOMAIN rows |-> boxes_index[assignment[rows[k]] + 1]],
     match_objects_index |->
        [k \in DOMAIN rows |-> objects_index[rows[k]]],
     cost_matrix_data |-> cost_matrix_data,
     assignment |-> assignment,
     objects_index |-> objects_index,
     boxes_index |-> boxes_index]

\* lines 813-829
MatchSolved(objects_index, boxes_index, cost_matrix_data, assignment) ==
    MatchOutput(objects_index, boxes_index, cost_matrix_data, assignment,
                AcceptedRows(cost_matrix_data, assignment))

\* lines 813-816
MatchCosts(objects_index, boxes_index, cost_matrix_data) ==
    MatchSolved(objects_index, boxes_index, cost_matrix_data,
                Solve(cost_matrix_data).Assignment)

\* lines 782-830
match(objects, objects_index, boxes_index, boxes, gated) ==
    MatchCosts(objects_index, boxes_index,
               CostMatrix(objects, objects_index, boxes_index, boxes, gated))

\* variant: only the first matched pair of a level updated
ApplyUpdates_first_only(objects, boxes, match_objects_index, match_boxes_index, i) ==
    IF Len(match_objects_index) = 0 \/ Len(match_boxes_index) = 0 \/ i > 1
    THEN objects
    ELSE [objects EXCEPT ![match_objects_index[1]] =
            TrackObject_update(@, boxes[match_boxes_index[1]])]

\* lines 762-765
RECURSIVE ApplyUpdates(_, _, _, _, _)
ApplyUpdates(objects, boxes, match_objects_index, match_boxes_index, i) ==
    LET count == IF Len(match_objects_index) < Len(match_boxes_index)
                 THEN Len(match_objects_index) ELSE Len(match_boxes_index)
    IN  IF i > count THEN objects
        ELSE ApplyUpdates(
                [objects EXCEPT ![match_objects_index[i]] =
                    TrackObject_update(@, boxes[match_boxes_index[i]])],
                boxes, match_objects_index, match_boxes_index, i + 1)

\* variant: the matched tracks left in unmatched_objects_index
AfterMatch_keep_objects(st, boxes, m) ==
    [objects |-> ApplyUpdates(st.objects, boxes, m.match_objects_index,
                              m.match_boxes_index, 1),
     unmatched_boxes_index |->
        set_symmetric_difference(Range(m.match_boxes_index),
                                 Range(st.unmatched_boxes_index)),
     unmatched_objects_index |-> st.unmatched_objects_index,
     updated |->
        st.updated \o [k \in DOMAIN m.match_objects_index |->
                        <<m.match_objects_index[k], m.match_boxes_index[k]>>],
     solves |-> Append(st.solves, m)]

\* lines 741-765: the level loop's iteration after its match returned m
AfterMatch(st, boxes, m) ==
    [objects |-> ApplyUpdates(st.objects, boxes, m.match_objects_index,
                              m.match_boxes_index, 1),
     unmatched_boxes_index |->
        set_symmetric_difference(Range(m.match_boxes_index),
                                 Range(st.unmatched_boxes_index)),
     unmatched_objects_index |->
        set_symmetric_difference(Range(st.unmatched_objects_index),
                                 Range(m.match_objects_index)),
     updated |->
        st.updated \o [k \in DOMAIN m.match_objects_index |->
                        <<m.match_objects_index[k], m.match_boxes_index[k]>>],
     solves |-> Append(st.solves, m)]

\* lines 735-765: one iteration of the level loop that reaches the match
LevelBody(st, boxes, gated, objects_index) ==
    AfterMatch(st, boxes,
               match(st.objects, objects_index, st.unmatched_boxes_index,
                     boxes, gated))

\* variant: a level takes every track missed at least level + 1 times
Candidates_at_least(st, state, level) ==
    SelectSeq(st.unmatched_objects_index,
              LAMBDA index :
                  st.objects[index].time_since_update_ >= level + 1
                  /\ st.objects[index].state_ = state)

\* lines 725-730
Candidates(st, state, level) ==
    SelectSeq(st.unmatched_objects_index,
              LAMBDA index :
                  st.objects[index].time_since_update_ = level + 1
                  /\ st.objects[index].state_ = state)

\* lines 731-733: the level at which the loop goes on after a level without
\* candidates. The levels that have no candidate either change nothing, so
\* it is the next one that has some (level_max when none has)
Continue(st, state, level) ==
    LET later == {st.objects[index].time_since_update_ - 1 :
                    index \in {i \in Range(st.unmatched_objects_index) :
                                 /\ st.objects[i].state_ = state
                                 /\ st.objects[i].time_since_update_ - 1 > level}}
    IN  IF later = {} THEN level_max ELSE Min(later)

\* variant: the level loop without the break of lines 721-723
RECURSIVE LevelLoop_no_break(_, _, _, _, _)
LevelLoop_no_break(st, boxes, gated, state, level) ==
    IF level >= level_max THEN st
    ELSE LET objects_index == Candidates(st, state, level)
         IN  IF Len(objects_index) = 0
             THEN LevelLoop_no_break(st, boxes, gated, state,
                                     Continue(st, state, level))
             ELSE LevelLoop_no_break(
                      LevelBody(st, boxes, gated, objects_index),
                      boxes, gated, state, level + 1)

\* lines 720-766: the level loop of one state, from level on
RECURSIVE LevelLoop(_, _, _, _, _)
LevelLoop(st, boxes, gated, state, level) ==
    IF level >= level_max THEN st
    ELSE IF Len(st.unmatched_boxes_index) = 0
            \/ Len(st.unmatched_objects_index) = 0
    THEN st
    ELSE LET objects_index == Candidates(st, state, level)
         IN  IF Len(objects_index) = 0
             THEN LevelLoop(st, boxes, gated, state,
                            Continue(st, state, level))
             ELSE LevelLoop(LevelBody(st, boxes, gated, objects_index),
                            boxes, gated, state, level + 1)

\* variant: the Tentative tracks served before the Confirmed ones
Cascade_tentative_first(objects, boxes, gated) ==
    LET st0 == [objects |-> objects,
                unmatched_boxes_index |-> [i \in DOMAIN boxes |-> i],
                unmatched_objects_index |-> [i \in DOMAIN objects |-> i],
                updated |-> <<>>, solves |-> <<>>]
    IN  LevelLoop(LevelLoop(st0, boxes, gated, "Tentative", 0),
                  boxes, gated, "Confirmed", 0)

\* lines 708-767
Cascade(objects, boxes, gated) ==
    LET st0 == [objects |-> objects,
                unmatched_boxes_index |-> [i \in DOMAIN boxes |-> i],
                unmatched_objects_index |-> [i \in DOMAIN objects |-> i],
                updated |-> <<>>, solves |-> <<>>]
    IN  LevelLoop(LevelLoop(st0, boxes, gated, "Confirmed", 0),
                  boxes, gated, "Tentative", 0)

\* lines 720-766 when the n-th call of match in this update() throws
\* std::bad_alloc from a push_back of its cost matrix (lines 787-811) or from
\* the vectors of Solve (lines 67-68): p.st is the state of the loop,
\* p.thrown tells that the exception is on its way out of update()
RECURSIVE LevelLoopThrow(_, _, _, _, _, _)
LevelLoopThrow(p, boxes, gated, state, level, n) ==
    IF p.thrown \/ level >= level_max THEN p
    ELSE IF Len(p.st.unmatched_boxes_index) = 0
            \/ Len(p.st.unmatched_objects_index) = 0
    THEN p
    ELSE LET objects_index == Candidates(p.st, state, level)
         IN  IF Len(objects_index) = 0
             THEN LevelLoopThrow(p, boxes, gated, state,
                                 Continue(p.st, state, level), n)
             ELSE IF Len(p.st.solves) + 1 = n
             THEN [p EXCEPT !.thrown = TRUE]
             ELSE LevelLoopThrow(
                     [p EXCEPT !.st = LevelBody(p.st, boxes, gated,
                                                objects_index)],
                     boxes, gated, state, level + 1, n)

\* lines 708-767 when the n-th call of match throws
CascadeThrow(objects, boxes, gated, n) ==
    LET p0 == [st |-> [objects |-> objects,
                       unmatched_boxes_index |-> [i \in DOMAIN boxes |-> i],
                       unmatched_objects_index |-> [i \in DOMAIN objects |-> i],
                       updated |-> <<>>, solves |-> <<>>],
               thrown |-> FALSE]
    IN  LevelLoopThrow(LevelLoopThrow(p0, boxes, gated, "Confirmed", 0, n),
                       boxes, gated, "Tentative", 0, n)

\* lines 769-771
MarkMissed(objects, unmatched_objects_index) ==
    [i \in DOMAIN objects |->
        IF i \in Range(unmatched_objects_index)
        THEN mark_missed(objects[i]) ELSE objects[i]]

\* variant: new_object without ++id_next_
RECURSIVE new_objects_same_id(_, _, _, _, _)
new_objects_same_id(objects, id_next, boxes, unmatched_boxes_index, k) ==
    IF k > Len(unmatched_boxes_index)
    THEN [objects |-> objects, id_next |-> id_next]
    ELSE new_objects_same_id(
            Append(objects,
                   TrackObjectImpl(boxes[unmatched_boxes_index[k]], id_next)),
            id_next, boxes, unmatched_boxes_index, k + 1)

\* variant: new_object with ++id_next_ before the construction
RECURSIVE new_objects_preincrement(_, _, _, _, _)
new_objects_preincrement(objects, id_next, boxes, unmatched_boxes_index, k) ==
    IF k > Len(unmatched_boxes_index)
    THEN [objects |-> objects, id_next |-> id_next]
    ELSE new_objects_preincrement(
            Append(objects,
                   TrackObjectImpl(boxes[unmatched_boxes_index[k]],
                                   id_next + 1)),
            id_next + 1, boxes, unmatched_boxes_index, k + 1)

\* lines 832-839, for the boxes of unmatched_boxes_index from position k on
\* (lines 772-774)
RECURSIVE new_objects(_, _, _, _, _)
new_objects(objects, id_next, boxes, unmatched_boxes_index, k) ==
    IF k > Len(unmatched_boxes_index)
    THEN [objects |-> objects, id_next |-> id_next]
    ELSE new_objects(
            Append(objects,
                   TrackObjectImpl(boxes[unmatched_boxes_index[k]], id_next)),
            id_next + 1, boxes, unmatched_boxes_index, k + 1)

\* variant: the copy without its predicate
Reap_all(objects) == objects

\* lines 775-779
Reap(objects) == SelectSeq(objects, LAMBDA obj : obj.state_ # "Deleted")

\* lines 775-779: b is the table and counter after the births, c the cascade's
\* result; with the table and the counter, what the call did
UpdateReturn(c, b) ==
    [objects |-> Reap(b.objects),
     id_next |-> b.id_next,
     updated |-> c.updated,
     missed |-> c.unmatched_objects_index,
     born |-> c.unmatched_boxes_index,
     deleted |-> {b.objects[i].id_ : i \in {j \in DOMAIN b.objects :
                                              b.objects[j].state_ = "Deleted"}},
     solves |-> c.solves]

\* lines 769-779: c is the cascade's result
AfterCascade(c, id_next, boxes) ==
    UpdateReturn(c,
        new_objects(MarkMissed(c.objects, c.unmatched_objects_index),
                    id_next, boxes, c.unmatched_boxes_index, 1))

\* lines 703-780: the table and counter update() leaves, and what it did
UpdateResult(objects, id_next, boxes, gated) ==
    AfterCascade(Cascade(predict(objects), boxes, gated), id_next, boxes)

-----------------------------------------------------------------------------
(* Specifications *)

\* what get_objects() shows of a track, without its boxes
Counters(t) ==
    [id_ |-> t.id_, state_ |-> t.state_, age_ |-> t.age_, hits_ |-> t.hits_,
     time_since_update_ |-> t.time_since_update_]

\* call.boxes, call.gated: the inputs of the call; call.pre: the table
\* before it; call.updated: the pairs <<track index, box index>> on which
\* TrackObjectImpl::update ran, in order; call.missed: the track indices on
\* which mark_missed ran; call.born: the box indices given to new_object;
\* call.deleted: the ids in state Deleted at line 775; call.solves: the calls
\* of match; call.created: the tracks created since construction
NoCall ==
    [boxes |-> <<>>, gated |-> {}, pre |-> <<>>, id_next_before |-> 1,
     updated |-> <<>>, missed |-> <<>>, born |-> <<>>, deleted |-> {},
     solves |-> <<>>, created |-> 0]

\* no run of the solver
IdleH == [pc |-> "idle"]

\* no update() has thrown
NoFailure == [thrown |-> FALSE]

\* no call of a function that only returns a value
NoProbe == [op |-> "none"]

\* what TrackerImpl::update (lines 703-780) does to the table, the counter
\* and the record of the call, r being its result
update_table(boxes, gated, r) ==
    /\ objects_' = r.objects
    /\ id_next_' = r.id_next
    /\ call' = [boxes |-> boxes, gated |-> gated,
                pre |-> [i \in DOMAIN objects_ |-> Counters(objects_[i])],
                id_next_before |-> id_next_, updated |-> r.updated,
                missed |-> r.missed, born |-> r.born,
                deleted |-> r.deleted, solves |-> r.solves,
                created |-> call.created + Len(r.born)]

\* TrackerImpl::update (lines 703-780) on detections boxes, with the gate
\* verdicts gated
update(boxes, gated) ==
    \E r \in {UpdateResult(objects_, id_next_, boxes, gated)} :
        /\ update_table(boxes, gated, r)
        /\ UNCHANGED <<hung, failed, probe>>

\* lines 683-684 and 842-843
Init ==
    /\ objects_ = <<>>
    /\ id_next_ = 1
    /\ call = NoCall
    /\ frame = 0
    /\ hung = IdleH
    /\ failed = NoFailure
    /\ probe = NoProbe

\* the verdicts the gate can give on a frame
GateChoices(objects, boxes) ==
    SUBSET {p \in (DOMAIN objects) \X (DOMAIN boxes) :
                MayGate(objects[p[1]].mean_, boxes[p[2]])}

Boxes == {BoxAt(0), BoxAt(1), BoxAt(40)}

SeqsUpTo(S, n) == UNION {[1 .. k -> S] : k \in 0 .. n}

\* any frame of at most MaxDets detections, MaxFrames times
Next ==
    /\ frame < MaxFrames
    /\ \E boxes \in SeqsUpTo(Boxes, MaxDets) :
        \E gated \in GateChoices(objects_, boxes) :
            /\ update(boxes, gated)
            /\ frame' = frame + 1
            /\ Len(objects_') <= MaxTracks

Spec == Init /\ [][Next]_vars

\* the long run: one place, where a detection is present or not
LongFrames == {<<>>, <<BoxAt(0)>>}

NextLong ==
    /\ \A i \in DOMAIN objects_ : objects_[i].age_ < LongAge
    /\ \E boxes \in LongFrames :
        \E gated \in GateChoices(objects_, boxes) :
            /\ update(boxes, gated)
            /\ id_next_' <= LongIds + 1
            /\ UNCHANGED frame

SpecLong == Init /\ [][NextLong]_vars

\* the long run through the lives of LifeIds tracks, one after the other
NextLife ==
    /\ \A i \in DOMAIN objects_ : objects_[i].age_ < LongAge
    /\ \E boxes \in LongFrames :
        \E gated \in GateChoices(objects_, boxes) :
            /\ update(boxes, gated)
            /\ id_next_' <= LifeIds + 1
            /\ UNCHANGED frame

SpecLife == Init /\ [][NextLife]_vars

\* TrackerImpl::update (lines 703-767) when its n-th call of match throws:
\* update() has no handler, so the exception leaves it at once, with what
\* predict() and the earlier levels did to objects_
update_throws(boxes, gated, n) ==
    \E p \in {CascadeThrow(predict(objects_), boxes, gated, n)} :
        /\ p.thrown
        /\ objects_' = p.st.objects
        /\ failed' = [thrown |-> TRUE, objects |-> objects_,
                      id_next |-> id_next_, updated |-> p.st.updated]
        /\ UNCHANGED <<id_next_, call, frame, hung, probe>>

\* the frames of Spec, each of which may end by an exception; the caller
\* gives up the tracker after one
Throws ==
    /\ frame < MaxFrames
    /\ \E boxes \in SeqsUpTo(Boxes, MaxDets) :
         \E gated \in GateChoices(objects_, boxes) :
            \E n \in 1 .. MaxThrowAt : update_throws(boxes, gated, n)

NextFail ==
    /\ ~failed.thrown
    /\ (Next \/ Throws)

SpecFail == Init /\ [][NextFail]_vars

\* two objects far apart, detected in each of the first WarmFrames frames,
\* which makes two Confirmed tracks; then any frame of at most MaxDets
\* detections
CascadeInputs ==
    IF frame < WarmFrames
    THEN {<<BoxAt(0), BoxAt(40)>>}
    ELSE SeqsUpTo(Boxes, MaxDets)

NextCascade ==
    /\ frame < CascadeFrames
    /\ \E boxes \in CascadeInputs :
         \E gated \in GateChoices(objects_, boxes) :
            /\ update(boxes, gated)
            /\ frame' = frame + 1
            /\ Len(objects_') <= CascadeTracks

SpecCascade == Init /\ [][NextCascade]_vars

\* one object that moves from BoxAt(h) to BoxAt(h + 1) between its h-th and
\* its next detection, and is not detected in at most MaxMiss frames; the
\* run ends with one call of location on its track
TrackFrames ==
    {<<>>, <<BoxAt(IF objects_ = <<>> THEN 0 ELSE objects_[1].hits_)>>}

Track ==
    /\ probe = NoProbe
    /\ \A i \in DOMAIN objects_ : objects_[i].hits_ < MaxHits
    /\ \E boxes \in TrackFrames :
         \E gated \in GateChoices(objects_, boxes) :
            /\ update(boxes, gated)
            /\ id_next_' <= 2
            /\ \A i \in DOMAIN objects_' :
                  objects_'[i].age_ - objects_'[i].hits_ <= MaxMiss
            /\ UNCHANGED frame

\* a call of get_objects()[index]->location(k)
Locate ==
    /\ probe = NoProbe
    /\ \E index \in DOMAIN objects_ :
         \E k \in -2 .. MaxHits :
            \E r \in {location(objects_[index], k)} :
               /\ probe' = [op |-> "location", index |-> index, k |-> k,
                            before |-> objects_[index], ret |-> r.ret]
               /\ objects_' = [objects_ EXCEPT ![index] = r.self]
    /\ UNCHANGED <<id_next_, call, frame, hung, failed>>

NextTrace == Track \/ Locate

SpecTrace == Init /\ [][NextTrace]_vars

\* lines 689-695: one pointer per element of objects_, each the address of a
\* slot of the buffer data that holds the elements
get_objects(objects, data) ==
    [i \in DOMAIN objects |-> [data |-> data, index |-> i]]

\* variant: a buffer that every update() leaves behind
Buffer_always_new(data, born, realloc, in_place) == data + 1

\* the buffer of objects_ after update(), data being the one before:
\* emplace_back (line 836) moves the elements to a new buffer when size()
\* equals capacity(), and how far capacity() is ahead is the library's choice
\* (realloc); the copy assignment of line 779, whose source is never longer
\* than objects_, assigns to the elements in place or allocates, as the
\* library chooses (in_place)
Buffer(data, born, realloc, in_place) ==
    IF (born > 0 /\ realloc) \/ ~in_place THEN data + 1 ELSE data

\* a caller takes the handles of a table that is not empty
Hold ==
    /\ probe = NoProbe
    /\ frame < MaxFrames
    /\ objects_ # <<>>
    /\ probe' = [op |-> "get_objects", ret |-> get_objects(objects_, 0),
                 ids |-> [i \in DOMAIN objects_ |-> objects_[i].id_],
                 data |-> 0, updates |-> 0, realloc |-> FALSE,
                 in_place |-> TRUE]
    /\ UNCHANGED <<objects_, id_next_, call, frame, hung, failed>>

\* update() while the caller holds the handles; probe.data is the buffer of
\* objects_ after the call, probe.realloc and probe.in_place what the library
\* chose in it
update_held ==
    /\ probe.op = "get_objects"
    /\ probe.updates = 0
    /\ \E boxes \in SeqsUpTo(Boxes, MaxDets) :
        \E gated \in GateChoices(objects_, boxes) :
            \E r \in {UpdateResult(objects_, id_next_, boxes, gated)} :
                /\ update_table(boxes, gated, r)
                /\ Len(objects_') <= MaxTracks
                /\ \E realloc \in BOOLEAN, in_place \in BOOLEAN :
                      probe' = [probe EXCEPT
                                  !.data = Buffer(probe.data, Len(r.born),
                                                  realloc, in_place),
                                  !.realloc = realloc,
                                  !.in_place = in_place,
                                  !.updates = 1]
    /\ frame' = frame + 1
    /\ UNCHANGED <<hung, failed>>

NextHandle ==
    \/ probe = NoProbe /\ Next
    \/ Hold
    \/ update_held

SpecHandle == Init /\ [][NextHandle]_vars

\* the boxes a caller can give to update(), degenerate ones among them, with
\* edges in half pixels
AnyBoxes ==
    {Box(l, t, r, b) : l \in 0 .. 1, t \in 0 .. 2, r \in 0 .. MaxEdge,
                       b \in 0 .. MaxEdge}

InitBox ==
    /\ objects_ = <<>>
    /\ id_next_ = 1
    /\ call = NoCall
    /\ frame = 0
    /\ hung = IdleH
    /\ failed = NoFailure
    /\ probe \in {[op |-> "update", box |-> b] : b \in AnyBoxes}

\* line 835: new_object builds the measurement of the box it was given
new_object_BBoxXYAH ==
    /\ probe.op = "update"
    /\ \E a \in BBoxXYAH(probe.box).aspect_ratios :
          probe' = [op |-> "new_object", box |-> probe.box,
                    boxah |-> BBoxXYAH(probe.box), aspect_ratio |-> a]
    /\ UNCHANGED <<objects_, id_next_, call, frame, hung, failed>>

\* line 793: match builds the measurement of each box it scores
match_BBoxXYAH ==
    /\ probe.op = "update"
    /\ \E a \in BBoxXYAH(probe.box).aspect_ratios :
          probe' = [op |-> "match", box |-> probe.box,
                    boxah |-> BBoxXYAH(probe.box), aspect_ratio |-> a]
    /\ UNCHANGED <<objects_, id_next_, call, frame, hung, failed>>

NextBox == new_object_BBoxXYAH \/ match_BBoxXYAH

SpecBox == InitBox /\ [][NextBox]_vars

\* the matrices given to the solver: N x M, N, M in 1 .. MaxDim, entries in
\* 0 .. MaxCost, as a sequence of rows
Matrices ==
    UNION {[1 .. n -> [1 .. m -> 0 .. MaxCost]] :
              n \in 1 .. MaxDim, m \in 1 .. MaxDim}

InitHung ==
    /\ objects_ = <<>>
    /\ id_next_ = 1
    /\ call = NoCall
    /\ frame = 0
    /\ hung \in {[pc |-> "Solve", DistMatrix |-> M] : M \in Matrices}
    /\ failed = NoFailure
    /\ probe = NoProbe

tracker == <<objects_, id_next_, call, frame, failed, probe>>

\* lines 63-77 and 87-200: Solve up to the call of step2b
Solve_enter ==
    /\ hung.pc = "Solve"
    /\ hung' = Preliminary(Flatten(hung.DistMatrix), Len(hung.DistMatrix),
                           Len(hung.DistMatrix[1]))
                 @@ [DistMatrix |-> hung.DistMatrix]
    /\ UNCHANGED tracker

\* lines 79-83
Solve_return ==
    /\ hung.pc = "done"
    /\ hung' = [pc |-> "returned", DistMatrix |-> hung.DistMatrix,
                oob |-> hung.oob, cerr |-> hung.cerr] @@ SolveReturn(hung)
    /\ UNCHANGED tracker

Hstep2a == hung.pc = "step2a" /\ hung' = step2a(hung) /\ UNCHANGED tracker
Hstep2b == hung.pc = "step2b" /\ hung' = step2b(hung) /\ UNCHANGED tracker
Hstep3 == hung.pc = "step3" /\ hung' = step3(hung) /\ UNCHANGED tracker
Hstep4 == hung.pc = "step4" /\ hung' = step4(hung) /\ UNCHANGED tracker
Hstep5 == hung.pc = "step5" /\ hung' = step5(hung) /\ UNCHANGED tracker

NextHung ==
    \/ Solve_enter
    \/ Hstep2a
    \/ Hstep2b
    \/ Hstep3
    \/ Hstep4
    \/ Hstep5
    \/ Solve_return

SpecHung == InitHung /\ [][NextHung]_vars

\* NextHung can take a step exactly when the solver has been called and has
\* not returned: each step is a total function of the solver's state and
\* changes pc
HungEnabled ==
    hung.pc \in {"Solve", "step2a", "step2b", "step3", "step4", "step5", "done"}

\* Solve is one sequential call: a step that can be taken is taken. This is
\* weak fairness of NextHung, with its enabling condition written out
SpecHungFair == SpecHung /\ ([]<>(~HungEnabled) \/ []<><<NextHung>>_vars)

\* the solver called on matrices that may hold negative entries: N x M,
\* N, M in 1 .. NegDim, entries in -NegCost .. NegCost
NegMatrices ==
    UNION {[1 .. n -> [1 .. m -> -NegCost .. NegCost]] :
              n \in 1 .. NegDim, m \in 1 .. NegDim}

InitNeg ==
    /\ objects_ = <<>>
    /\ id_next_ = 1
    /\ call = NoCall
    /\ frame = 0
    /\ hung \in {[pc |-> "Solve", DistMatrix |-> M] : M \in NegMatrices}
    /\ failed = NoFailure
    /\ probe = NoProbe

SpecNeg == InitNeg /\ [][NextHung]_vars


-----------------------------------------------------------------------------
(* Properties *)

Ids(objects) == {objects[i].id_ : i \in DOMAIN objects}

\* the track of objects_ with the given id
TrackById(id) == objects_[CHOOSE i \in DOMAIN objects_ : objects_[i].id_ = id]

\* the indices of the tracks, and of the boxes, matched by the last call
UpdatedObjects == {call.updated[k][1] : k \in DOMAIN call.updated}
UpdatedBoxes == {call.updated[k][2] : k \in DOMAIN call.updated}

\* C1: after every update() no track of the table is in state Deleted, and
\* every track that mark_missed set to Deleted during the call is gone from
\* the table the call leaves.
C1_NoDeletedTrack ==
    /\ \A i \in DOMAIN objects_ : objects_[i].state_ # "Deleted"
    /\ \A id \in call.deleted : id \notin Ids(objects_)

\* a call that deleted one track and left another in the table
C1_Witness ==
    /\ call.deleted # {}
    /\ objects_ # <<>>
    /\ \E i \in DOMAIN call.pre : call.pre[i].id_ \in Ids(objects_)

\* C2: the ids of the table are pairwise distinct and strictly increasing
\* along it; the k-th track ever created has id k (so the first has id 1 and
\* no id is given twice); id_next_ grows by exactly one per created track.
C2_IdsUnique ==
    /\ \A i, j \in DOMAIN objects_ : i < j => objects_[i].id_ < objects_[j].id_
    /\ \A i \in DOMAIN objects_ : objects_[i].id_ \in 1 .. id_next_ - 1
    /\ id_next_ = call.id_next_before + Len(call.born)
    /\ id_next_ = 1 + call.created
    /\ Len(call.born) <= Len(objects_)
    /\ \A k \in DOMAIN call.born :
          objects_[Len(objects_) - Len(call.born) + k].id_
             = call.created - Len(call.born) + k
    /\ \A i \in DOMAIN call.pre :
          call.pre[i].id_ \in 1 .. call.id_next_before - 1

\* two tracks in the table after an earlier track was removed
C2_Witness ==
    /\ Len(objects_) = 2
    /\ Len(call.born) >= 1
    /\ objects_[1].id_ > 1
    /\ objects_[2].id_ > objects_[1].id_ + 1

\* C3: every track of the table has time_since_update_ >= 0, hits_ >= 1,
\* age_ >= hits_ and a trace of at most 80 boxes.
C3_CounterRanges ==
    \A i \in DOMAIN objects_ :
        /\ objects_[i].time_since_update_ >= 0
        /\ objects_[i].hits_ >= 1
        /\ objects_[i].age_ >= objects_[i].hits_
        /\ Len(objects_[i].trace_) <= 80

\* a track updated more than 80 times, whose trace was cut back to 80
C3_Witness ==
    \E i \in DOMAIN objects_ :
        /\ objects_[i].hits_ = 81
        /\ Len(objects_[i].trace_) = 80
        /\ objects_[i].age_ > objects_[i].hits_

\* C4: a Confirmed track matched by a call has time_since_update_ = 0 after
\* it; one left unmatched by the k-th consecutive call since then is still in
\* the table, still Confirmed, with time_since_update_ = k, for k = 1 .. 30;
\* left unmatched by the 31st it is Deleted and gone from the table.
C4_ConfirmedMisses ==
    \A i \in DOMAIN call.pre :
        call.pre[i].state_ = "Confirmed" =>
            IF i \in UpdatedObjects
            THEN /\ call.pre[i].id_ \in Ids(objects_)
                 /\ TrackById(call.pre[i].id_).state_ = "Confirmed"
                 /\ TrackById(call.pre[i].id_).time_since_update_ = 0
            ELSE IF call.pre[i].time_since_update_ + 1 \in 1 .. 30
            THEN /\ call.pre[i].id_ \in Ids(objects_)
                 /\ TrackById(call.pre[i].id_).state_ = "Confirmed"
                 /\ TrackById(call.pre[i].id_).time_since_update_
                       = call.pre[i].time_since_update_ + 1
            ELSE /\ call.pre[i].time_since_update_ + 1 = 31
                 /\ call.pre[i].id_ \in call.deleted
                 /\ call.pre[i].id_ \notin Ids(objects_)

\* the 31st consecutive unmatched call of a Confirmed track
C4_Witness ==
    \E i \in DOMAIN call.pre :
        /\ call.pre[i].state_ = "Confirmed"
        /\ call.pre[i].time_since_update_ = 30
        /\ i \notin UpdatedObjects
        /\ call.pre[i].id_ \notin Ids(objects_)

\* C5: a Tentative track that a call leaves unmatched is set to Deleted in
\* that call and is not in the table afterwards, whatever its counters.
C5_TentativeMiss ==
    \A i \in DOMAIN call.pre :
        (call.pre[i].state_ = "Tentative" /\ i \notin UpdatedObjects) =>
            /\ call.pre[i].id_ \in call.deleted
            /\ call.pre[i].id_ \notin Ids(objects_)

\* a Tentative track with two hits left unmatched by a call with detections
C5_Witness ==
    \E i \in DOMAIN call.pre :
        /\ call.pre[i].state_ = "Tentative"
        /\ call.pre[i].hits_ = 2
        /\ i \notin UpdatedObjects
        /\ call.boxes # <<>>
        /\ call.pre[i].id_ \notin Ids(objects_)

\* C6: a track is Confirmed exactly from the update that raises hits_ to 3:
\* a track of the table is Confirmed iff hits_ >= 3, and a track turns from
\* Tentative to Confirmed in a call iff the call matched it and it had two
\* hits before.
C6_ConfirmedAtThree ==
    /\ \A i \in DOMAIN objects_ :
          objects_[i].state_ = "Confirmed" <=> objects_[i].hits_ >= 3
    /\ \A i \in DOMAIN call.pre :
          (call.pre[i].state_ = "Tentative" /\ i \in UpdatedObjects) =>
              /\ call.pre[i].id_ \in Ids(objects_)
              /\ TrackById(call.pre[i].id_).hits_ = call.pre[i].hits_ + 1
              /\ TrackById(call.pre[i].id_).state_ = "Confirmed"
                    <=> call.pre[i].hits_ = 2

\* a track matched in the two frames after its birth
C6_Witness ==
    \E i \in DOMAIN call.pre :
        /\ call.pre[i].state_ = "Tentative"
        /\ call.pre[i].hits_ = 2
        /\ call.pre[i].age_ = 2
        /\ i \in UpdatedObjects
        /\ TrackById(call.pre[i].id_).state_ = "Confirmed"
        /\ TrackById(call.pre[i].id_).hits_ = 3

\* the fields C7 gives a track created from box d with the given id
Newborn(t, d, id) ==
    /\ t.state_ = "Tentative"
    /\ t.age_ = 1
    /\ t.hits_ = 1
    /\ t.time_since_update_ = 0
    /\ t.trace_ = <<d>>
    /\ t.last_position_ = d
    /\ t.id_ = id

\* C7: the detections a call leaves unmatched become, in detection order, the
\* last tracks of the table; each is Tentative with age_ 1, hits_ 1,
\* time_since_update_ 0, trace_ = [d], last_position_ = d and the id that
\* id_next_ held before its creation; on an empty table every detection
\* becomes such a track.
C7_Newborn ==
    /\ Len(call.born) <= Len(objects_)
    /\ \A j \in DOMAIN call.boxes :
          (\E k \in DOMAIN call.born : call.born[k] = j) <=> j \notin UpdatedBoxes
    /\ \A k, l \in DOMAIN call.born : k < l => call.born[k] < call.born[l]
    /\ \A k \in DOMAIN call.born :
          Newborn(objects_[Len(objects_) - Len(call.born) + k],
                  call.boxes[call.born[k]], call.id_next_before + k - 1)
    /\ call.pre = <<>> =>
          /\ Len(objects_) = Len(call.boxes)
          /\ \A j \in DOMAIN call.boxes :
                Newborn(objects_[j], call.boxes[j], call.id_next_before + j - 1)

\* two tracks born in one call on a table that already held a track
C7_Witness ==
    /\ Len(call.born) = 2
    /\ call.pre # <<>>
    /\ call.id_next_before > 1
    /\ call.boxes[1] # call.boxes[2]

\* C8: a call with no detection never runs match, updates no track, creates
\* no track and leaves id_next_ alone; mark_missed runs exactly once on every
\* track, and every track the call keeps has age_ and time_since_update_ one
\* above their values before the call.
C8_EmptyFrame ==
    call.boxes = <<>> =>
        /\ call.solves = <<>>
        /\ call.updated = <<>>
        /\ call.born = <<>>
        /\ id_next_ = call.id_next_before
        /\ Len(call.missed) = Len(call.pre)
        /\ \A i \in DOMAIN call.pre : \E k \in DOMAIN call.missed : call.missed[k] = i
        /\ Ids(objects_) \cup call.deleted = Ids(call.pre)
        /\ \A i \in DOMAIN call.pre :
              call.pre[i].id_ \in Ids(objects_) =>
                  /\ TrackById(call.pre[i].id_).age_ = call.pre[i].age_ + 1
                  /\ TrackById(call.pre[i].id_).time_since_update_
                        = call.pre[i].time_since_update_ + 1
                  /\ TrackById(call.pre[i].id_).hits_ = call.pre[i].hits_
                  /\ TrackById(call.pre[i].id_).state_ = call.pre[i].state_

\* a call with no detection on a table holding a track it keeps
C8_Witness ==
    /\ call.boxes = <<>>
    /\ call.pre # <<>>
    /\ objects_ # <<>>
    /\ objects_[1].time_since_update_ = 2

\* the pairs <<track index, box index>> a call of match pushed
Accepted(s) ==
    {<<s.match_objects_index[k], s.match_boxes_index[k]>> :
        k \in DOMAIN s.match_objects_index}

\* the pairs of the tracks before the last call and its detections
AllPairs == (DOMAIN call.pre) \X (DOMAIN call.boxes)

\* C9: match accepts a pair only if the solver chose it and its cell is
\* strictly below 200; a pair that failed the gate is never accepted; when
\* every pair of a frame fails the gate no track is matched, every track is
\* marked missed and every detection becomes a new track.
C9_AcceptBelow200 ==
    /\ \A n \in DOMAIN call.solves :
          \A k \in DOMAIN call.solves[n].match_objects_index :
             \E i \in DOMAIN call.solves[n].objects_index :
                /\ call.solves[n].objects_index[i]
                      = call.solves[n].match_objects_index[k]
                /\ call.solves[n].assignment[i] >= 0
                /\ call.solves[n].boxes_index[call.solves[n].assignment[i] + 1]
                      = call.solves[n].match_boxes_index[k]
                /\ call.solves[n].cost_matrix_data[i]
                      [call.solves[n].assignment[i] + 1] < 200
    /\ \A k \in DOMAIN call.updated :
          /\ call.updated[k] \notin call.gated
          /\ \E n \in DOMAIN call.solves : call.updated[k] \in Accepted(call.solves[n])
    /\ (AllPairs # {} /\ call.gated = AllPairs) =>
          /\ call.updated = <<>>
          /\ Len(call.missed) = Len(call.pre)
          /\ \A i \in DOMAIN call.pre : \E k \in DOMAIN call.missed : call.missed[k] = i
          /\ call.born = [j \in DOMAIN call.boxes |-> j]
          /\ Len(objects_) >= Len(call.boxes)

\* the solver chose a pair whose cell is exactly 200 and match rejected it
C9_Witness ==
    \E n \in DOMAIN call.solves :
        \E i \in DOMAIN call.solves[n].objects_index :
            /\ call.solves[n].assignment[i] >= 0
            /\ call.solves[n].cost_matrix_data[i]
                  [call.solves[n].assignment[i] + 1] = 200
            /\ \A k \in DOMAIN call.solves[n].match_objects_index :
                  call.solves[n].match_objects_index[k]
                     # call.solves[n].objects_index[i]

\* the sum of the cells D[r][A[r]] over the rows from r on that A assigns
RECURSIVE SumAssigned(_, _, _)
SumAssigned(D, A, r) ==
    IF r > Len(D) THEN 0
    ELSE (IF A[r] >= 0 THEN D[r][A[r] + 1] ELSE 0) + SumAssigned(D, A, r + 1)

\* C10: for an N x M matrix Solve returns an Assignment of length N whose
\* entries lie in -1 .. M-1, no column is given to two rows, and the cost
\* returned is the sum of the input cells over the assigned rows.
C10_SolveResult ==
    hung.pc = "returned" =>
        /\ Len(hung.Assignment) = Len(hung.DistMatrix)
        /\ \A r \in DOMAIN hung.Assignment :
              hung.Assignment[r] \in -1 .. Len(hung.DistMatrix[1]) - 1
        /\ \A r1, r2 \in DOMAIN hung.Assignment :
              (r1 # r2 /\ hung.Assignment[r1] >= 0)
                 => hung.Assignment[r1] # hung.Assignment[r2]
        /\ hung.cost = SumAssigned(hung.DistMatrix, hung.Assignment, 1)

\* a 3 x 2 matrix solved with a row left unassigned and a positive cost
C10_Witness ==
    /\ hung.pc = "returned"
    /\ Len(hung.DistMatrix) = 3
    /\ Len(hung.DistMatrix[1]) = 2
    /\ \E r \in DOMAIN hung.Assignment : hung.Assignment[r] = -1
    /\ hung.cost > 0

\* the assignments of the rows of an N x M matrix that give distinct columns
\* to min(N, M) rows and -1 to the others
Feasible(N, M) ==
    {A \in [1 .. N -> -1 .. M - 1] :
        /\ \A r1, r2 \in 1 .. N : (r1 # r2 /\ A[r1] >= 0) => A[r1] # A[r2]
        /\ Cardinality({r \in 1 .. N : A[r] >= 0}) = IF N <= M THEN N ELSE M}

\* the assignments of least total cost
Minimisers(D) ==
    {A \in Feasible(Len(D), Len(D[1])) :
        \A B \in Feasible(Len(D), Len(D[1])) :
            SumAssigned(D, A, 1) <= SumAssigned(D, B, 1)}

AssignedRows == {r \in DOMAIN hung.Assignment : hung.Assignment[r] >= 0}

\* C12: Solve on an N x M matrix gives a column to every row when N <= M,
\* and to exactly M rows, the other N - M being -1, when N > M.
C12_Rectangular ==
    hung.pc = "returned" =>
        /\ Len(hung.DistMatrix) <= Len(hung.DistMatrix[1])
              => \A r \in DOMAIN hung.Assignment : hung.Assignment[r] # -1
        /\ Len(hung.DistMatrix) > Len(hung.DistMatrix[1])
              => /\ Cardinality(AssignedRows) = Len(hung.DistMatrix[1])
                 /\ \A r \in DOMAIN hung.Assignment \ AssignedRows :
                       hung.Assignment[r] = -1
                 /\ Cardinality(DOMAIN hung.Assignment \ AssignedRows)
                       = Len(hung.DistMatrix) - Len(hung.DistMatrix[1])

\* a 3 x 1 matrix solved: the last row has the column, two rows have none
C12_Witness ==
    /\ hung.pc = "returned"
    /\ Len(hung.DistMatrix) = 3
    /\ Len(hung.DistMatrix[1]) = 1
    /\ hung.Assignment = <<-1, -1, 0>>

\* C13: when an exception interrupts update() during association, the
\* table, every field of every track and id_next_ are what they were before
\* the call.
C13_NoPartialMutation ==
    failed.thrown =>
        /\ objects_ = failed.objects
        /\ id_next_ = failed.id_next

\* C14: whatever box update() is given, the height by which the
\* measurement's aspect ratio is divided is positive, both in new_object and
\* in match.
C14_PositiveDivisor ==
    probe.op \in {"new_object", "match"} => probe.boxah.divisor > 0

\* C15: on a track whose trace holds n boxes, location(k) returns the k-th
\* most recent box, trace[n-1-k] counted from 0, when 0 <= k < n, and the
\* empty Box when k < 0 or k >= n; the track is as it was before the call.
C15_Location ==
    probe.op = "location" =>
        /\ (0 <= probe.k /\ probe.k < Len(probe.before.trace_)) =>
              /\ probe.ret
                    = probe.before.trace_[Len(probe.before.trace_) - probe.k]
              /\ probe.ret = BoxAt(probe.before.hits_ - 1 - probe.k)
        /\ (probe.k < 0 \/ probe.k >= Len(probe.before.trace_)) =>
              probe.ret = Box(0, 0, 0, 0)
        /\ objects_[probe.index] = probe.before

\* location(79) on a trace that has been cut back to 80 boxes
C15_Witness ==
    /\ probe.op = "location"
    /\ probe.k = 79
    /\ Len(probe.before.trace_) = 80
    /\ probe.before.hits_ = 82
    /\ probe.ret = BoxAt(2)

\* the place of a track of the last call in the order of the cascade:
\* Confirmed with time_since_update 1 .. 30 after predict(), then Tentative
Rank(i) ==
    IF call.pre[i].state_ = "Confirmed"
    THEN call.pre[i].time_since_update_ + 1
    ELSE 30 + call.pre[i].time_since_update_ + 1

\* the tracks and the boxes offered to the n-th call of match, and the boxes
\* it accepted
SolveTracks(n) ==
    {call.solves[n].objects_index[k] : k \in DOMAIN call.solves[n].objects_index}
SolveBoxes(n) ==
    {call.solves[n].boxes_index[k] : k \in DOMAIN call.solves[n].boxes_index}
AcceptedBoxes(n) == {p[2] : p \in Accepted(call.solves[n])}

\* C16: the calls of match of one update() follow the order Confirmed with
\* time_since_update 1, 2, .., 30, then Tentative: each call is given all
\* the tracks of one step, later calls are given tracks of later steps, and
\* each call is offered exactly the detections that no earlier call
\* accepted; so no detection updates two tracks.
C16_CascadeOrder ==
    /\ \A n \in DOMAIN call.solves :
          /\ \A i \in SolveTracks(n) :
                SolveTracks(n) = {j \in DOMAIN call.pre : Rank(j) = Rank(i)}
          /\ \A m \in DOMAIN call.solves :
                n < m => \A i \in SolveTracks(n) :
                            \A j \in SolveTracks(m) : Rank(i) < Rank(j)
          /\ SolveBoxes(n)
                = (DOMAIN call.boxes)
                     \ UNION {AcceptedBoxes(m) : m \in 1 .. n - 1}
          /\ Accepted(call.solves[n]) \subseteq SolveTracks(n) \X SolveBoxes(n)
    /\ \A k, l \in DOMAIN call.updated :
          k # l => call.updated[k][2] # call.updated[l][2]
    /\ \A k \in DOMAIN call.updated :
          \E n \in DOMAIN call.solves : call.updated[k] \in Accepted(call.solves[n])

\* three calls of match in one update(): the first, on the Confirmed track
\* just updated, took one of two detections, the second, on the Confirmed
\* track missed once, took none, and the third gave the Tentative track the
\* detection that was left
C16_Witness ==
    /\ Len(call.solves) = 3
    /\ Len(call.solves[1].boxes_index) = 2
    /\ Accepted(call.solves[1]) # {}
    /\ Accepted(call.solves[2]) = {}
    /\ Len(call.solves[3].boxes_index) = 1
    /\ Accepted(call.solves[3]) # {}
    /\ \A i \in SolveTracks(2) : Rank(i) = 2
    /\ \A i \in SolveTracks(3) : call.pre[i].state_ = "Tentative"

\* how many entries of the sequence s satisfy Test
Count(s, Test(_)) == Cardinality({k \in DOMAIN s : Test(s[k])})

\* C17: in every update() each track of the table is either updated once,
\* with one detection, or marked missed once, and never both; each
\* detection either updates one track or gives birth to one track; the
\* births are the detections less the matched pairs.
C17_Partition ==
    /\ \A i \in DOMAIN call.pre :
          Count(call.updated, LAMBDA u : u[1] = i)
             + Count(call.missed, LAMBDA x : x = i) = 1
    /\ \A j \in DOMAIN call.boxes :
          Count(call.updated, LAMBDA u : u[2] = j)
             + Count(call.born, LAMBDA x : x = j) = 1
    /\ Len(call.born) = Len(call.boxes) - Len(call.updated)
    /\ Len(objects_)
          = Len(call.pre) - Cardinality(call.deleted) + Len(call.born)
    /\ \A k \in DOMAIN call.updated :
          /\ call.pre[call.updated[k][1]].id_ \in Ids(objects_)
          /\ TrackById(call.pre[call.updated[k][1]].id_).hits_
                = call.pre[call.updated[k][1]].hits_ + 1
          /\ TrackById(call.pre[call.updated[k][1]].id_).time_since_update_ = 0
          /\ TrackById(call.pre[call.updated[k][1]].id_).last_position_
                = call.boxes[call.updated[k][2]]
    /\ \A k \in DOMAIN call.missed :
          \/ call.pre[call.missed[k]].id_ \in call.deleted
          \/ /\ call.pre[call.missed[k]].id_ \in Ids(objects_)
             /\ TrackById(call.pre[call.missed[k]].id_).hits_
                   = call.pre[call.missed[k]].hits_
             /\ TrackById(call.pre[call.missed[k]].id_).time_since_update_
                   = call.pre[call.missed[k]].time_since_update_ + 1

\* a call that updated a track, marked another missed and created a third
C17_Witness ==
    /\ Len(call.updated) = 1
    /\ Len(call.missed) = 1
    /\ Len(call.born) = 1
    /\ Len(call.pre) = 2
    /\ Len(objects_) = 3

\* The protocol in strict order: the cascade runs on the predicted tracks
\* and only collects the matched pairs; the updates come after it.
RefAfterMatch(st, boxes, m) ==
    [objects |-> st.objects,
     unmatched_boxes_index |->
        Ascending(Range(st.unmatched_boxes_index) \ Range(m.match_boxes_index)),
     unmatched_objects_index |->
        Ascending(Range(st.unmatched_objects_index)
                     \ Range(m.match_objects_index)),
     updated |->
        st.updated \o [k \in DOMAIN m.match_objects_index |->
                        <<m.match_objects_index[k], m.match_boxes_index[k]>>],
     solves |-> Append(st.solves, m)]

RefStep(st, boxes, gated, state, level) ==
    RefAfterMatch(st, boxes,
                  match(st.objects, Candidates(st, state, level),
                        st.unmatched_boxes_index, boxes, gated))

RECURSIVE RefLevels(_, _, _, _, _)
RefLevels(st, boxes, gated, state, level) ==
    IF level >= 30 \/ st.unmatched_boxes_index = <<>>
       \/ st.unmatched_objects_index = <<>>
    THEN st
    ELSE IF Candidates(st, state, level) = <<>>
    THEN RefLevels(st, boxes, gated, state, level + 1)
    ELSE RefLevels(RefStep(st, boxes, gated, state, level),
                   boxes, gated, state, level + 1)

RefCascade(objects, boxes, gated) ==
    RefLevels(RefLevels([objects |-> objects,
                         unmatched_boxes_index |-> [i \in DOMAIN boxes |-> i],
                         unmatched_objects_index |-> [i \in DOMAIN objects |-> i],
                         updated |-> <<>>, solves |-> <<>>],
                        boxes, gated, "Confirmed", 0),
              boxes, gated, "Tentative", 0)

RECURSIVE RefUpdates(_, _, _, _)
RefUpdates(objects, boxes, pairs, k) ==
    IF k > Len(pairs) THEN objects
    ELSE RefUpdates([objects EXCEPT ![pairs[k][1]] =
                        TrackObject_update(@, boxes[pairs[k][2]])],
                    boxes, pairs, k + 1)

RefBirths(c, objects, id_next, boxes) ==
    new_objects(MarkMissed(objects, c.unmatched_objects_index), id_next,
                boxes, c.unmatched_boxes_index, 1)

RefReap(b) == [objects |-> Reap(b.objects), id_next |-> b.id_next]

RefAfterCascade(c, id_next, boxes) ==
    RefReap(RefBirths(c, RefUpdates(c.objects, boxes, c.updated, 1),
                      id_next, boxes))

RefUpdate(objects, id_next, boxes, gated) ==
    RefAfterCascade(RefCascade(predict(objects), boxes, gated), id_next, boxes)

SameAsRef(r) == objects_' = r.objects /\ id_next_' = r.id_next

\* C18: the table, the fields of every track and id_next_ that update()
\* leaves are those of the protocol run in strict order (all predicts, the
\* whole cascade, then the updates of the matched pairs, then the misses,
\* the births and the reap), on the same detections and gate verdicts.
C18_SameAsProtocol ==
    [][SameAsRef(RefUpdate(objects_, id_next_, call'.boxes, call'.gated))]_vars

\* a call in which a track was matched at a level that followed the updates
\* of an earlier level
C18_Witness ==
    /\ Len(call.solves) = 2
    /\ Accepted(call.solves[1]) # {}
    /\ Accepted(call.solves[2]) # {}
    /\ Len(call.updated) = 2

\* the columns covered in the solver's state
CoveredColumns == {c \in DOMAIN hung.coveredColumns : hung.coveredColumns[c]}

\* C19: Solve terminates on every N x M matrix of nonnegative entries: the
\* cycle of step2a, step2b, step3, step4 and step5 reaches the state where
\* min(N, M) columns are covered, and Solve returns.
C19_Terminates ==
    /\ <>(hung.pc = "done" /\ Cardinality(CoveredColumns) = hung.minDim)
    /\ <>(hung.pc = "returned")

\* a 3 x 3 matrix solved after step5 raised a cell covered twice
C19_Witness ==
    /\ hung.pc = "done"
    /\ hung.nOfRows = 3
    /\ hung.nOfColumns = 3
    /\ Cardinality(CoveredColumns) = 3
    /\ \E n \in DOMAIN hung.distMatrix : hung.distMatrix[n] > hung.distMatrixIn[n]

\* In SpecTrace the h-th box associated with the track, its birth detection
\* being the first, is BoxAt(h - 1).
TraceIsRecent(t) ==
    /\ Len(t.trace_) = IF t.hits_ < 80 THEN t.hits_ ELSE 80
    /\ \A j \in DOMAIN t.trace_ :
          t.trace_[j] = BoxAt(t.hits_ - Len(t.trace_) + j - 1)
    /\ t.trace_[Len(t.trace_)] = t.last_position_

\* a step that leaves the hits of a track alone leaves its trace alone
TraceKept ==
    \A i \in DOMAIN objects_ : \A j \in DOMAIN objects_' :
        (objects_[i].id_ = objects_'[j].id_
            /\ objects_[i].hits_ = objects_'[j].hits_)
           => objects_[i].trace_ = objects_'[j].trace_

\* C20: the trace of a track is the sequence of the last min(hits, 80)
\* boxes associated with it, oldest first; so its size is min(hits, 80), its
\* last element is last_position, and nothing but an update of the track
\* changes it.
C20_TraceIsHistory ==
    /\ [](\A i \in DOMAIN objects_ : TraceIsRecent(objects_[i]))
    /\ [][TraceKept]_vars

\* a track updated 80 times after its birth and then missed: its trace
\* holds the boxes of its last 80 hits
C20_Witness ==
    /\ objects_ # <<>>
    /\ objects_[1].hits_ = 81
    /\ objects_[1].time_since_update_ = 1
    /\ Len(objects_[1].trace_) = 80
    /\ objects_[1].trace_[1] = BoxAt(1)
    /\ objects_[1].trace_[80] = BoxAt(80)
\* the entries of a matrix given to Solve
Entries(D) == {D[i][j] : i \in 1 .. Len(D), j \in 1 .. Len(D[1])}

\* the matrix with every negative entry replaced by 0
Clamped(D) ==
    [i \in 1 .. Len(D) |->
        [j \in 1 .. Len(D[1]) |-> IF D[i][j] < 0 THEN 0 ELSE D[i][j]]]

\* C21: when Solve is given a matrix with a negative entry, a diagnostic is
\* written and the call either returns the sentinel (no row assigned) or
\* returns what it returns for the matrix with the negative entries clamped
\* to 0; the algorithm is not run on the negative values.
C21_NegativeRejected ==
    (hung.pc = "returned" /\ \E v \in Entries(hung.DistMatrix) : v < 0) =>
        /\ hung.cerr > 0
        /\ \/ \A r \in 1 .. Len(hung.DistMatrix) : hung.Assignment[r] = -1
           \/ LET r == Solve(Clamped(hung.DistMatrix))
              IN  hung.Assignment = r.Assignment /\ hung.cost = r.cost

\* the handles the caller took before the last update()
Held == DOMAIN probe.ret

\* handle h points at a live element of objects_, the track it was taken
\* for
Designates(h) ==
    /\ probe.ret[h].data = probe.data
    /\ probe.ret[h].index <= Len(objects_)
    /\ objects_[probe.ret[h].index].id_ = probe.ids[h]

\* C22 as stated: a handle obtained before an update() call does not
\* designate its track after the call, whether or not the track is still
\* live.
C22_HandleNeverSurvives ==
    (probe.op = "get_objects" /\ probe.updates = 1) =>
        \A h \in Held : ~Designates(h)

\* C22 as amended: handles point into the table's storage, and a handle
\* obtained before an update() call designates its track after the call
\* exactly when no birth reallocated the storage, the final assignment was
\* made in place, the track is still live and no track at a lower index was
\* removed.
C22_HandleStability ==
    (probe.op = "get_objects" /\ probe.updates = 1) =>
        \A h \in Held :
            /\ probe.ret[h].index = h
            /\ Designates(h) <=>
                  /\ Len(call.born) = 0 \/ ~probe.realloc
                  /\ probe.in_place
                  /\ \A g \in 1 .. h : probe.ids[g] \notin call.deleted

\* a handle that designates its track after a frame with a birth
C22_Witness ==
    /\ probe.op = "get_objects"
    /\ probe.updates = 1
    /\ Len(call.born) > 0
    /\ Designates(1)

\* the state in which get_objects() shows track id, "gone" when it shows none
Seen(objects, id) ==
    IF id \in Ids(objects)
    THEN objects[CHOOSE i \in DOMAIN objects : objects[i].id_ = id].state_
    ELSE "gone"

\* the moves of a track id between two snapshots that the lifecycle allows
Forward ==
    {<<"Tentative", "Tentative">>, <<"Tentative", "Confirmed">>,
     <<"Tentative", "gone">>, <<"Confirmed", "Confirmed">>,
     <<"Confirmed", "gone">>, <<"gone", "gone">>}

\* C23: from one update() call to the next, a track id goes from Tentative
\* to Confirmed or out of the table and from Confirmed out of the table,
\* or stays as it is; a Confirmed id is never Tentative afterwards, and an id
\* given out before and no longer in the table does not come back.
C23_LifecycleForward ==
    [][\A id \in (1 .. id_next_ - 1) \cup Ids(objects_) :
          <<Seen(objects_, id), Seen(objects_', id)>> \in Forward]_vars

\* the second track has been Confirmed and has now left the table, after
\* the first one had left it
C23_Witness ==
    /\ objects_ = <<>>
    /\ call.deleted = {2}
    /\ \E i \in DOMAIN call.pre :
          call.pre[i].id_ = 2 /\ call.pre[i].state_ = "Confirmed"

\* the lifecycle state of a track and its counters agree
Coupled(t) ==
    /\ t.state_ = "Tentative" =>
          /\ t.time_since_update_ = 0
          /\ t.hits_ \in {1, 2}
          /\ t.age_ = t.hits_
    /\ t.state_ = "Confirmed" =>
          /\ t.hits_ >= ConfirmHits
          /\ t.time_since_update_ \in 0 .. level_max

\* the ids shown Tentative in the table before the last update() call
TentativeBefore ==
    {call.pre[i].id_ : i \in {j \in DOMAIN call.pre :
                                 call.pre[j].state_ = "Tentative"}}

\* the ids shown Tentative in a table
TentativeIn(objects) ==
    {objects[i].id_ : i \in {j \in DOMAIN objects :
                                objects[j].state_ = "Tentative"}}

\* C24: after any update() call a Tentative track has time_since_update 0,
\* hits 1 or 2 and age equal to hits, and a Confirmed track has hits >= 3
\* and time_since_update in 0 .. 30; and no track is Tentative in three
\* successive snapshots (before the last call, after it, after the next).
C24_StateAndCounters ==
    /\ [](\A i \in DOMAIN objects_ : Coupled(objects_[i]))
    /\ [][TentativeBefore \cap TentativeIn(objects_)
             \cap TentativeIn(objects_') = {}]_vars

\* a track Tentative in two successive snapshots, with its second hit
C24_Witness ==
    \E i \in DOMAIN objects_ :
        /\ objects_[i].state_ = "Tentative"
        /\ objects_[i].hits_ = 2
        /\ objects_[i].id_ \in TentativeBefore

\* the tracks that had missed level_max frames in a row when the last
\* update() was called
Overdue ==
    {i \in DOMAIN call.pre : /\ call.pre[i].state_ = "Confirmed"
                             /\ call.pre[i].time_since_update_ = level_max}

\* C25: a track is updated only in a frame where its time_since_update
\* after predict() is in 1 .. 30. A Confirmed track that had missed 30 frames
\* in a row is given to no call of match in the next frame and is not in the
\* table after it, whatever the detections and the gate; the detections no
\* other track took, all of them when it was alone, become new tracks with
\* ids it never had.
C25_NoLateReassociation ==
    /\ \A i \in UpdatedObjects :
          call.pre[i].time_since_update_ + 1 \in 1 .. level_max
    /\ \A i \in Overdue :
          /\ \A n \in DOMAIN call.solves : i \notin SolveTracks(n)
          /\ i \notin UpdatedObjects
          /\ call.pre[i].id_ \in call.deleted
          /\ call.pre[i].id_ \notin Ids(objects_)
          /\ Len(call.pre) = 1 => Len(call.born) = Len(call.boxes)
          /\ \A j \in (DOMAIN call.boxes) \ UpdatedBoxes :
                \E t \in Range(objects_) :
                    /\ Newborn(t, call.boxes[j], t.id_)
                    /\ t.id_ >= call.id_next_before
                    /\ t.id_ > call.pre[i].id_

\* a Confirmed track that had missed 30 frames is gone after a frame with a
\* detection at BoxAt(0), the place of all its detections, which the gate
\* passed, and the detection is a new track
C25_Witness ==
    /\ Overdue = {1}
    /\ call.boxes = <<BoxAt(0)>>
    /\ call.gated = {}
    /\ Len(objects_) = 1
    /\ objects_[1].id_ = call.pre[1].id_ + 1

\* C26: every matrix the tracker gives to Solve has a row for each of at
\* least one candidate track and, in each row, a column for each of at least
\* one remaining detection, whatever the table and the detections; so
\* DistMatrix[0] exists when Solve reads it.
C26_SolveNotEmpty ==
    \A n \in DOMAIN call.solves :
        LET D == call.solves[n].cost_matrix_data
        IN  /\ Len(D) >= 1
            /\ Len(D) = Len(call.solves[n].objects_index)
            /\ \A r \in DOMAIN D :
                  /\ Len(D[r]) >= 1
                  /\ Len(D[r]) = Len(call.solves[n].boxes_index)

\* a frame with detections in which match was called once and a track was
\* left out of it: the only detection was taken at an earlier level, and the
\* loop ended before the level of that track
C26_Witness ==
    /\ Len(call.solves) = 1
    /\ Len(call.boxes) = 1
    /\ UpdatedBoxes = {1}
    /\ \E i \in DOMAIN call.pre :
          /\ i \notin SolveTracks(1)
          /\ \A j \in SolveTracks(1) : Rank(j) < Rank(i)

====
